---- MODULE Spec2Model ----
(***************************************************************************)
(* A model of function_trace (src/function_trace/__init__.py): the Tracer  *)
(* registry, the sys.settrace hook Tracer.tracefunc with its stack of      *)
(* traced frames and depth limits, and the trace_on session, driven by a   *)
(* watched Python 2 program that crosses call / return / exception         *)
(* boundaries as CPython reports them to a trace function.                 *)
(***************************************************************************)
EXTENDS Integers, Sequences, FiniteSets, TLC

\* ------------------------------------------------------------------ bounds

\* Number of call boundaries the watched program crosses in one behaviour.
MaxCalls == 3

\* Number of exceptions the watched program raises in one behaviour.
MaxRaises == 2

\* Number of internal faults (a repr() or a write that raises inside
\* trace_in / trace_out) in one behaviour.
MaxFaults == 1

\* sys.maxint (of a 32-bit build; the value only has to exceed every level).
maxint == 2147483647

\* ------------------------------------------------- the watched program's names

\* Plain functions handed to the tracer.
PlainTargets == {"g", "h"}

\* An instance of a class that defines __call__, handed to the tracer.
CallableTargets == {"m1"}

\* A candidate that is no function, no method and has no __call__.
Shapeless == {"x"}

\* A callable of the program that nobody registers: a second instance of m1's
\* class.
Unregistered == {"m2"}

Callees == PlainTargets \cup CallableTargets \cup Unregistered

\* frame.f_code of a frame that runs callee c: a function's own code object,
\* and the one code object of the class's __call__ for both instances.
Code(c) == IF c \in {"m1", "m2"} THEN "call" ELSE c

\* The first argument of the frame when it is an instance whose __call__ runs
\* in the frame ("self"); {} for a plain function.
SelfOf(c) == IF c \in {"m1", "m2"} THEN {c} ELSE {}

\* The identity of "no value": Python's None.
None == "None"

\* The additional-depth dictionaries a session may be given (depths=...).
DepthConfigs ==
    { [c \in {} |-> 0],
      [c \in {"g"} |-> 0],
      [c \in {"g"} |-> 1],
      [c \in {"g", "h"} |-> IF c = "g" THEN 2 ELSE 0] }

\* ------------------------------------------------------------ the registry

\* inspect.ismethod / isfunction / hasattr(o, '__call__') of a candidate.
Shape(o) ==
    IF o \in PlainTargets THEN "function"
    ELSE IF o \in CallableTargets \cup {"m2"} THEN "callable"
    ELSE "none"

\* _get_function_mapping(o): the 2-tuple (identifier, info object), or None
\* (modelled as the empty tuple, which does not unpack into two names).
_get_function_mapping(o) ==
    IF Shape(o) = "function" THEN <<Code(o), o>>
    ELSE IF Shape(o) = "callable" THEN <<o, o>>
    ELSE <<>>

\* The loop of Tracer._get_functions over the candidates in iteration order:
\* "ident, info_obj = _get_function_mapping(f)" raises TypeError when the
\* mapping is None, which ends the constructor.
RECURSIVE RegisterAll(_, _, _, _)
RegisterAll(order, dct, fns, dps) ==
    IF order = <<>> THEN [functions |-> fns, depths |-> dps, raised |-> FALSE]
    ELSE LET f == Head(order)
             m == _get_function_mapping(f)
         IN IF Len(m) # 2
            THEN [functions |-> fns, depths |-> dps, raised |-> TRUE]
            ELSE RegisterAll(Tail(order), dct,
                             fns \cup {m[1]},
                             IF f \in DOMAIN dct
                             THEN [i \in DOMAIN dps \cup {m[1]} |->
                                     IF i = m[1] THEN dct[f] ELSE dps[i]]
                             ELSE dps)

\* The orders in which a Python set may be iterated.
Orders(S) ==
    { s \in [1..Cardinality(S) -> S] : \A i, j \in 1..Cardinality(S) : i # j => s[i] # s[j] }

\* Tracer._get_functions(functions, depths), the candidates iterated in order.
_get_functions(order, dct) == RegisterAll(order, dct, {}, [i \in {} |-> 0])

\* The state of a freshly constructed Tracer (Tracer.__init__ and the end of
\* _get_functions).
NewTracer ==
    [ tracedframes    |-> <<>>,
      min_depth       |-> maxint,
      exception_frame |-> {},
      no_trace        |-> {} ]

\* ---------------------------------------------------------------- state

VARIABLES
    session,     \* "new", "failed", "built", "active", "ended"
    functions,   \* keys of Tracer.functions
    depths,      \* Tracer.depths
    tracer,      \* tracedframes, min_depth, exception_frame, no_trace
    hook,        \* TRUE while sys.settrace holds tracer.tracefunc
    closed,      \* TRUE once tracer.close() has run
    frames,      \* the watched program's stack of frames, innermost last
    mode,        \* "run", "raised" (exception arriving in the top frame),
                 \* "exc" (exception reported in the top frame, not yet handled)
    nextId,      \* identity of the next frame object
    raises,      \* exceptions raised by the program so far
    log,         \* the lines written by trace_in / trace_out
    calls,       \* the callees called so far, in order
    deepest,     \* the deepest program stack so far
    raisedOut,   \* the frames left by an exception so far
    given,       \* the candidates handed to the Tracer's constructor
    faults,      \* internal faults so far
    escaped,     \* TRUE once an internal fault left tracefunc
    exitKind,    \* how the with-block was left: "none", "normal", "exception"
    prior,       \* for each entry of tracedframes, the frame whose call
                 \* appended it and the tracedframes and min_depth of the
                 \* moment before
    inner,       \* a second trace_on started inside the with-block:
                 \* "none", "active", "ended"
    fmt,         \* the traced call f(a, b) whose lines are rendered as text
    thr,         \* two threads, each inside its own trace_on: each thread's
                 \* frames and position
    store,       \* the attributes of the Tracer instances of the two threads
                 \* (tracer state and the lines of the output file)
    alone,       \* for each thread, its frames and its tracer as they are
                 \* when the same program runs with no other thread
    sup          \* a call of the target supplier all(o, include_hidden)

\* The variables that the steps of the watched program in the outer session
\* leave alone.
aside == <<inner, fmt, thr, store, alone, sup>>

vars == <<session, functions, depths, tracer, hook, closed, frames, mode,
          nextId, raises, log, calls, deepest, raisedOut, given, faults,
          escaped, exitKind, prior, inner, fmt, thr, store, alone, sup>>


\* ------------------------------------------------------- Tracer's helpers

Last(s) == s[Len(s)]

Front(s) == SubSeq(s, 1, Len(s) - 1)

RECURSIVE MinOf(_)
MinOf(s) ==
    IF Len(s) = 1 THEN s[1]
    ELSE LET m == MinOf(Tail(s)) IN IF s[1] < m THEN s[1] ELSE m

\* Tracer._min_depths over a list of traced frames.
_min_depths(tf) ==
    IF tf = <<>> THEN maxint ELSE MinOf([i \in 1..Len(tf) |-> tf[i].maxdepth])

\* Tracer.level
level(t) == Len(t.tracedframes)

\* Tracer._get_id for a frame that runs callee c.
_get_id(c) ==
    IF Code(c) \in functions THEN Code(c)
    ELSE IF \E cf \in SelfOf(c) : Code(cf) = Code(c) /\ cf \in functions
         THEN CHOOSE cf \in SelfOf(c) : TRUE
         ELSE None

\* A limit taken as an absolute depth rather than relative to the level.
next_depth_limit_Absolute(lvl, additional_depth) == additional_depth

\* self.level + additional_depth (tracefunc's next_depth_limit).
next_depth_limit(lvl, additional_depth) == lvl + additional_depth

\* tracefunc's min_depth_limit after the additional-depth block.
min_depth_limit(t, ident) ==
    LET lim == _min_depths(t.tracedframes)
    IN IF level(t) < lim /\ ident \in DOMAIN depths
          /\ next_depth_limit(level(t), depths[ident]) < lim
       THEN next_depth_limit(level(t), depths[ident])
       ELSE lim

\* "if self.level < min_depth_limit": the call is written to the trace.
Emits(lvl, lim) == lvl < lim

\* "if self.level <= min_depth_limit": the frame is appended to tracedframes.
Pushes(lvl, lim) == lvl <= lim

\* A match on a non-empty stack alone, without the f_back linkage.
TopMatches_AnyTop(t, back) == t.tracedframes # <<>>

\* "self.tracedframes and self.tracedframes[-1][0] is frame.f_back"
TopMatches(t, back) ==
    t.tracedframes # <<>> /\ Last(t.tracedframes).back = back

\* The level trace_in writes an enter line at.
InLevel(t) == level(t)

\* A trace_out that indents by self.level, as trace_in does.
OutLevel_AsIn(t) == level(t)

\* The level trace_out writes an exit or exception line at.
OutLevel(t) == level(t) - 1

\* A line of the trace: kind, indentation level, and the frame (with its callee)
\* whose boundary wrote it.
Line(kind, lvl, fid, c) == [kind |-> kind, level |-> lvl, inv |-> fid, fn |-> c]

\* A pop that leaves the cached min_depth as it is.
Popped_NoRecalc(t) == [t EXCEPT !.tracedframes = Front(t.tracedframes)]

\* tracedframes.pop() and the recalculation of min_depth that follows it.
Popped(t) ==
    LET rest == Front(t.tracedframes)
    IN [t EXCEPT !.tracedframes = rest,
                 !.min_depth = IF @ = Last(t.tracedframes).maxdepth
                               THEN _min_depths(rest) ELSE @]

\* An append that leaves the cached min_depth as it is.
Pushed_NoCache(t, back, lim) ==
    [t EXCEPT !.tracedframes = Append(@, [back |-> back, maxdepth |-> lim,
                                          is_traced |-> level(t) < lim])]

\* tracedframes.append((frame.f_back, min_depth_limit, self.level <
\* min_depth_limit)) and the update of min_depth that follows it.
Pushed(t, back, lim) ==
    [t EXCEPT !.tracedframes = Append(@, [back |-> back, maxdepth |-> lim,
                                          is_traced |-> level(t) < lim]),
              !.min_depth = IF lim < @ THEN lim ELSE @]

\* What a call of tracefunc leaves behind: the tracer, the lines written, and
\* "self" (returns self.tracefunc), "none" (returns None) or "raise".
Outcome(t, out, res) == [t |-> t, out |-> out, res |-> res]

\* tracefunc(frame, 'call', arg) for frame fid running callee c, called from
\* frame back; fault: trace_in raises.
OnCall(t, fid, back, c, fault) ==
    IF Code(c) \notin t.no_trace
    THEN LET ident == _get_id(c)
         IN IF ident # None
            THEN LET lim == min_depth_limit(t, ident)
                     lvl == level(t)
                 IN IF Emits(lvl, lim) /\ fault
                    THEN Outcome(t, <<>>, "raise")
                    ELSE Outcome(
                           IF Pushes(lvl, lim) THEN Pushed(t, back, lim) ELSE t,
                           IF Emits(lvl, lim)
                           THEN <<Line("enter", InLevel(t), fid, c)>> ELSE <<>>,
                           "self")
            ELSE Outcome([t EXCEPT !.no_trace = @ \cup {Code(c)}], <<>>,
                         IF level(t) >= t.min_depth THEN "none" ELSE "self")
    ELSE Outcome(t, <<>>, "self")

\* tracefunc(frame, 'return', arg)
OnReturn(t, fid, back, c, fault) ==
    IF t.exception_frame # {}
    THEN Outcome([t EXCEPT !.exception_frame = {}], <<>>, "self")
    ELSE IF TopMatches(t, back)
    THEN IF Last(t.tracedframes).is_traced /\ fault
         THEN Outcome(t, <<>>, "raise")
         ELSE Outcome(Popped(t),
                      IF Last(t.tracedframes).is_traced
                      THEN <<Line("exit", OutLevel(t), fid, c)>> ELSE <<>>,
                      "self")
    ELSE Outcome(t, <<>>, "self")

\* tracefunc(frame, 'exception', arg)
OnException(t, fid, back, c, fault) ==
    IF TopMatches(t, back)
    THEN IF Last(t.tracedframes).is_traced /\ fault
         THEN Outcome([t EXCEPT !.exception_frame = {fid}], <<>>, "raise")
         ELSE Outcome([Popped(t) EXCEPT !.exception_frame = {fid}],
                      IF Last(t.tracedframes).is_traced
                      THEN <<Line("exception", OutLevel(t), fid, c)>> ELSE <<>>,
                      "self")
    ELSE Outcome(t, <<>>, "self")

\* The except clause around tracefunc's body: "raise  # for debugging".
Reraises == TRUE

\* Tracer.tracefunc(frame, event, arg): the body, and the except clause, which
\* either lets the fault out or drops it and goes on to "return self.tracefunc".
tracefunc(t, event, fid, back, c, fault) ==
    LET r == IF event = "call" THEN OnCall(t, fid, back, c, fault)
             ELSE IF event = "return" THEN OnReturn(t, fid, back, c, fault)
             ELSE OnException(t, fid, back, c, fault)
    IN IF r.res = "raise" /\ ~Reraises THEN Outcome(r.t, r.out, "self") ELSE r


\* --------------------------------------------- CPython's delivery of events

\* The frame a new frame is called from: the innermost frame of the program,
\* or frame 0, the frame that holds the with-block.
Caller(fs) == IF fs = <<>> THEN 0 ELSE Last(fs).id

\* The f_back of the innermost frame.
BackOfTop(fs) == Caller(Front(fs))

\* What tracefunc leaves behind when it is not called at all.
NotCalled(t) == Outcome(t, <<>>, "skip")

\* sys.settrace semantics: the installed function is called for every 'call';
\* 'return' and 'exception' go to the frame's local trace function, which is
\* whatever the 'call' returned (None: the frame is not traced).
Deliver(event, fid, back, c, ltrace, fault) ==
    IF hook /\ (event = "call" \/ ltrace)
    THEN tracefunc(tracer, event, fid, back, c, fault)
    ELSE NotCalled(tracer)

\* The hook after a call of the trace function: CPython removes a trace
\* function that raised (PyEval_SetTrace(NULL, NULL)).
HookAfter(res) == hook /\ res # "raise"

\* ------------------------------------------------------------------ actions

\* No Tracer has been constructed and the program has not started.
Fresh ==
    /\ session = "new"
    /\ functions = {}
    /\ depths = [i \in {} |-> 0]
    /\ tracer = NewTracer
    /\ hook = FALSE
    /\ closed = FALSE
    /\ frames = <<>>
    /\ mode = "run"
    /\ nextId = 1
    /\ raises = 0
    /\ log = <<>>
    /\ calls = <<>>
    /\ deepest = 0
    /\ raisedOut = {}
    /\ given = {}
    /\ faults = 0
    /\ escaped = FALSE
    /\ exitKind = "none"
    /\ prior = <<>>
    /\ inner = "none"

\* No call is being rendered.
FmtOff == [pc |-> "off"]

\* No thread has been started.
ThreadsOff == <<>>

\* The target supplier is not being called.
SupOff == [pc |-> "off"]

Init ==
    /\ Fresh
    /\ fmt = FmtOff
    /\ thr = ThreadsOff
    /\ store = ThreadsOff
    /\ alone = ThreadsOff
    /\ sup = SupOff

\* StdoutTracer(functions, depths=dct): Tracer.__init__ with _get_functions.
Construct ==
    /\ session = "new"
    /\ \E bad \in SUBSET Shapeless, dct \in DepthConfigs :
         \E order \in Orders(PlainTargets \cup CallableTargets \cup bad \cup DOMAIN dct) :
            LET r == _get_functions(order, dct)
            IN /\ functions' = r.functions
               /\ depths' = r.depths
               /\ session' = IF r.raised THEN "failed" ELSE "built"
               /\ given' = PlainTargets \cup CallableTargets \cup bad
    /\ tracer' = NewTracer
    /\ UNCHANGED <<prior, aside>>
    /\ UNCHANGED <<hook, closed, frames, mode, nextId, raises, log, calls,
                   deepest, raisedOut, faults, escaped, exitKind>>

\* trace_on, up to the yield: sys.settrace(tracer.tracefunc)
TraceOn ==
    /\ session = "built"
    /\ session' = "active"
    /\ hook' = TRUE
    /\ UNCHANGED <<prior, aside>>
    /\ UNCHANGED <<functions, depths, tracer, closed, frames, mode, nextId,
                   raises, log, calls, deepest, raisedOut, given, faults,
                   escaped, exitKind>>

\* The effect of one call of the trace function on the tracer, the log and
\* the hook.
Handled(r) ==
    /\ tracer' = r.t
    /\ log' = log \o r.out
    /\ hook' = HookAfter(r.res)
    /\ faults' = IF r.res = "raise" THEN faults + 1 ELSE faults
    /\ escaped' = (escaped \/ r.res = "raise")
    /\ prior' = IF Len(r.t.tracedframes) > Len(tracer.tracedframes)
                THEN Append(prior, [id |-> nextId,
                                    tracedframes |-> tracer.tracedframes,
                                    min_depth |-> tracer.min_depth])
                ELSE IF Len(r.t.tracedframes) < Len(tracer.tracedframes)
                THEN Front(prior)
                ELSE prior

\* A fault is an input only where tracefunc calls trace_in or trace_out.
FaultOK(fault, r) == fault => (faults < MaxFaults /\ r.res = "raise")

\* The part of the program that is followed: the with-block while the trace
\* function is installed. (Once a fault has removed the trace function inside
\* the block, no boundary reaches the tracer; the program is only followed
\* out of the block.)
Watched == session = "active" /\ hook

\* The program calls callee c: a 'call' boundary. The body of the with-block
\* is one call (with trace_on(...): main()); every other call is made by a
\* frame of the program.
Call(c) ==
    /\ Watched
    /\ mode = "run"
    /\ nextId <= MaxCalls
    /\ frames = <<>> => nextId = 1
    /\ \E fault \in BOOLEAN :
         LET r == Deliver("call", nextId, Caller(frames), c, FALSE, fault)
         IN /\ FaultOK(fault, r)
            /\ Handled(r)
            /\ IF r.res = "raise"
               THEN frames' = frames /\ mode' = "raised"
               ELSE /\ frames' = Append(frames, [id |-> nextId, fn |-> c,
                                                 ltrace |-> r.res = "self"])
                    /\ mode' = "run"
    /\ nextId' = nextId + 1
    /\ calls' = Append(calls, c)
    /\ deepest' = IF Len(frames) + 1 > deepest THEN Len(frames) + 1 ELSE deepest
    /\ UNCHANGED aside
    /\ UNCHANGED <<session, functions, depths, closed, raises, raisedOut, given,
                   exitKind>>

\* The innermost frame returns a value: a 'return' boundary.
Return ==
    /\ session = "active"
    /\ inner # "active"
    /\ mode = "run"
    /\ frames # <<>>
    /\ \E fault \in BOOLEAN :
         LET top == Last(frames)
             r == Deliver("return", top.id, BackOfTop(frames), top.fn, top.ltrace, fault)
         IN /\ FaultOK(fault, r)
            /\ Handled(r)
            /\ mode' = IF r.res = "raise" THEN "raised" ELSE "run"
    /\ frames' = Front(frames)
    /\ UNCHANGED aside
    /\ UNCHANGED <<session, functions, depths, closed, nextId, raises, calls,
                   deepest, raisedOut, given, exitKind>>

\* An 'exception' boundary in the innermost frame.
ExceptionIn(fault) ==
    LET top == Last(frames)
        r == Deliver("exception", top.id, BackOfTop(frames), top.fn, top.ltrace, fault)
    IN /\ FaultOK(fault, r)
       /\ Handled(r)
       /\ mode' = "exc"

\* The code of the innermost frame raises.
Raise ==
    /\ Watched
    /\ mode = "run"
    /\ frames # <<>>
    /\ raises < MaxRaises
    /\ raises' = raises + 1
    /\ \E fault \in BOOLEAN : ExceptionIn(fault)
    /\ UNCHANGED aside
    /\ UNCHANGED <<session, functions, depths, closed, frames, nextId, calls,
                   deepest, raisedOut, given, exitKind>>

\* An exception that left a callee arrives in the caller's frame.
Propagate ==
    /\ mode = "raised"
    /\ frames # <<>>
    /\ \E fault \in BOOLEAN : ExceptionIn(fault)
    /\ UNCHANGED aside
    /\ UNCHANGED <<session, functions, depths, closed, frames, nextId, raises,
                   calls, deepest, raisedOut, given, exitKind>>

\* An except clause of the innermost frame (or of the with-block) handles the
\* exception: no boundary.
Catch ==
    /\ \/ mode = "exc"
       \/ mode = "raised" /\ frames = <<>> /\ session = "active"
    /\ mode' = "run"
    /\ UNCHANGED <<prior, aside>>
    /\ UNCHANGED <<session, functions, depths, tracer, hook, closed, frames,
                   nextId, raises, log, calls, deepest, raisedOut, given,
                   faults, escaped, exitKind>>

\* The innermost frame does not handle the exception: it is left with a
\* 'return' boundary (arg None) and the exception goes on to its caller.
Unwind ==
    /\ mode = "exc"
    /\ \E fault \in BOOLEAN :
         LET top == Last(frames)
             r == Deliver("return", top.id, BackOfTop(frames), top.fn, top.ltrace, fault)
         IN FaultOK(fault, r) /\ Handled(r)
    /\ frames' = Front(frames)
    /\ mode' = "raised"
    /\ raisedOut' = raisedOut \cup {Last(frames).id}
    /\ UNCHANGED aside
    /\ UNCHANGED <<session, functions, depths, closed, nextId, raises, calls,
                   deepest, given, exitKind>>

\* A trace_on without the finally clause: sys.settrace(None) only at the end
\* of a with-block that was left normally.
HookAtExit_NoFinally(kind) == hook /\ kind = "exception"

\* sys.settrace(None) in trace_on's finally clause.
HookAtExit(kind) == FALSE

\* closing(tracer).__exit__: tracer.close()
ClosedAtExit(kind) == TRUE

\* The with-block is left, normally or by an exception: trace_on's finally
\* clause, then closing(tracer). An exception goes on to the code around the
\* with statement.
Exit(kind) ==
    /\ session = "active"
    /\ inner # "active"
    /\ frames = <<>>
    /\ mode = IF kind = "normal" THEN "run" ELSE "raised"
    /\ hook' = HookAtExit(kind)
    /\ closed' = ClosedAtExit(kind)
    /\ session' = "ended"
    /\ exitKind' = kind
    /\ UNCHANGED <<prior, aside>>
    /\ UNCHANGED <<functions, depths, tracer, frames, mode, nextId, raises, log,
                   calls, deepest, raisedOut, given, faults, escaped>>

Next ==
    \/ Construct
    \/ TraceOn
    \/ \E c \in Callees : Call(c)
    \/ Return
    \/ Raise
    \/ Propagate
    \/ Catch
    \/ Unwind
    \/ \E kind \in {"normal", "exception"} : Exit(kind)

Spec == Init /\ [][Next]_vars

\* ---------------------------------------------- a session inside a session

\* The code of the with-block, or of a frame of the program, enters
\* "with trace_on(tracer=t2):" while the outer session is tracing:
\* sys.settrace(t2.tracefunc) replaces the outer tracer's function in the
\* thread's one trace-function slot. (The block's body crosses no boundary of
\* the program.)
InnerOn ==
    /\ Watched
    /\ mode = "run"
    /\ inner = "none"
    /\ inner' = "active"
    /\ hook' = FALSE
    /\ UNCHANGED <<session, functions, depths, tracer, closed, frames, mode,
                   nextId, raises, log, calls, deepest, raisedOut, given,
                   faults, escaped, exitKind, prior, fmt, thr, store, alone,
                   sup>>

\* The thread's trace function after the inner trace_on's finally clause:
\* sys.settrace(None), whatever was installed before the inner session.
HookAfterInner(before) == FALSE

\* The inner with-block is left: sys.settrace(None), then t2.close().
InnerExit ==
    /\ session = "active"
    /\ inner = "active"
    /\ inner' = "ended"
    /\ hook' = HookAfterInner(TRUE)
    /\ UNCHANGED <<session, functions, depths, tracer, closed, frames, mode,
                   nextId, raises, log, calls, deepest, raisedOut, given,
                   faults, escaped, exitKind, prior, fmt, thr, store, alone,
                   sup>>

NextNested ==
    \/ Next
    \/ InnerOn
    \/ InnerExit

SpecNested == Init /\ [][NextNested]_vars


\* ------------------------------------------------- the text of the trace

\* The largest argument value of the rendered call.
MaxArg == 5

indentchar == "|   "

\* level * indentchar
RECURSIVE Indent(_)
Indent(lvl) == IF lvl <= 0 THEN "" ELSE indentchar \o Indent(lvl - 1)

\* repr() of an int.
repr(v) == ToString(v)

\* sep.join(strs)
RECURSIVE Join(_, _)
Join(sep, strs) ==
    IF strs = <<>> THEN ""
    ELSE IF Len(strs) = 1 THEN strs[1]
    ELSE strs[1] \o sep \o Join(sep, Tail(strs))

\* Formatter.format_input(level, f, args, kwargs); kwargs as the list
\* kwargs.items() of (name, value) pairs.
format_input(lvl, f, args, kwargs) ==
    Indent(lvl) \o "- " \o f \o "("
      \o Join(", ", [i \in 1..Len(args) |-> repr(args[i])]
                     \o [i \in 1..Len(kwargs) |-> kwargs[i][1] \o "=" \o repr(kwargs[i][2])])
      \o ")"

\* Formatter.format_output(level, returnval, exception)
format_output(lvl, returnval, exception) ==
    Indent(lvl) \o "-> " \o (IF exception THEN "!!!" ELSE "") \o repr(returnval)

\* _name(f) of an object with __module__ and __name__.
_name(f) == f.module \o "." \o f.name

\* StdoutTracer.trace_in(f, args, kwargs) at the tracer's level: the line printed.
trace_in(lvl, f, args, kwargs) == format_input(lvl, f, args, kwargs)

\* StdoutTracer.trace_out(r, exception) at the tracer's level: the line printed.
trace_out(lvl, r, exception) == format_output(lvl - 1, r, exception)

\* Tracer._method_or_function_call for a regular function: every local of the
\* frame (at a call boundary: the arguments) is handed over as a keyword
\* argument, the list of positional arguments is empty.
_method_or_function_call(lvl, f, locals) == trace_in(lvl, _name(f), <<>>, locals)

\* The target of the rendered call: def f(a, b): return a + b, in module
\* "module".
TargetF == [module |-> "module", name |-> "f"]

\* frame.f_locals.items() at f's call boundary, in the order the dict gives.
LocalsOf(st) == [i \in 1..2 |-> <<st.order[i], IF st.order[i] = "a" THEN st.a ELSE st.b>>]

\* f(a, b) is about to be called under a tracer of [f] without depths, from
\* the with-block (level 0).
InitFormat ==
    /\ Fresh
    /\ thr = ThreadsOff
    /\ store = ThreadsOff
    /\ alone = ThreadsOff
    /\ sup = SupOff
    /\ fmt \in [ pc : {"start"}, a : 0..MaxArg, b : 0..MaxArg,
                 order : {<<"a", "b">>, <<"b", "a">>},
                 level : {0}, out : {<<>>} ]

\* The call boundary of f: tracefunc's call branch with level 0 below the
\* limit sys.maxint, so the enter line is printed and the frame appended.
FmtCall ==
    /\ fmt.pc = "start"
    /\ fmt' = [fmt EXCEPT !.pc = "in",
                          !.out = Append(@, _method_or_function_call(fmt.level, TargetF, LocalsOf(fmt))),
                          !.level = @ + 1]
    /\ UNCHANGED <<session, functions, depths, tracer, hook, closed, frames,
                   mode, nextId, raises, log, calls, deepest, raisedOut, given,
                   faults, escaped, exitKind, prior, inner, thr, store, alone,
                   sup>>

\* f returns a + b: tracefunc's return branch prints the exit line and pops.
FmtReturn ==
    /\ fmt.pc = "in"
    /\ fmt' = [fmt EXCEPT !.pc = "done",
                          !.out = Append(@, trace_out(fmt.level, fmt.a + fmt.b, FALSE)),
                          !.level = @ - 1]
    /\ UNCHANGED <<session, functions, depths, tracer, hook, closed, frames,
                   mode, nextId, raises, log, calls, deepest, raisedOut, given,
                   faults, escaped, exitKind, prior, inner, thr, store, alone,
                   sup>>

NextFormat ==
    \/ FmtCall
    \/ FmtReturn

SpecFormat == InitFormat /\ [][NextFormat]_vars


\* ------------------------------------------------------------ two threads

\* Number of steps (calls, returns, raises, ...) of one thread's program.
MaxThreadSteps == 4

Threads == {1, 2}

\* The frame object that runs the thread's with-block.
RootOf(th) == 10 * th

\* Where the instance handed to thread k's trace_on keeps tracedframes,
\* min_depth, exception_frame, no_trace and outputfile: in attributes of one
\* class-wide object.
AttrsOf_ClassWide(k) == 1

\* Where the instance handed to thread k's trace_on keeps tracedframes,
\* min_depth, exception_frame, no_trace and outputfile: in its own attributes,
\* set by __init__ (each thread is given an instance of its own).
AttrsOf(k) == k

\* A PerThreadFileTracer after __init__: the Tracer state and the empty file.
NewFileTracer == [t |-> NewTracer, file |-> <<>>]

\* A thread that has entered its with-block.
NewThread(th) == [root |-> RootOf(th), frames |-> <<>>, mode |-> "run", n |-> 0]

\* The callees of the threads' programs: a registered function and an
\* unregistered callable instance.
ThreadCallees == {"g", "m2"}

\* The additional-depth dictionaries the two tracers may be given.
ThreadDepthConfigs == { [c \in {} |-> 0], [c \in {"g"} |-> 1] }

\* The steps of a thread's program.
ThreadSteps ==
    [kind : {"call"}, c : ThreadCallees]
      \cup [kind : {"return", "raise", "propagate", "catch", "unwind"}, c : {None}]

\* The thread in state st can take step p.
CanStep(st, p) ==
    /\ st.n < MaxThreadSteps
    /\ IF p.kind = "call" THEN st.mode = "run"
       ELSE IF p.kind \in {"return", "raise"} THEN st.mode = "run" /\ st.frames # <<>>
       ELSE IF p.kind = "propagate" THEN st.mode = "raised" /\ st.frames # <<>>
       ELSE IF p.kind = "catch"
       THEN st.mode = "exc" \/ (st.mode = "raised" /\ st.frames = <<>>)
       ELSE st.mode = "exc"

\* One step of a thread whose trace function is the tracefunc of the tracer
\* with attributes tr: the boundary it crosses is delivered as sys.settrace
\* delivers it (to the thread's own trace function), PerThreadFileTracer's
\* trace_in / trace_out append to the tracer's outputfile.
ThreadStep(st, tr, p) ==
    LET top == Last(st.frames)
        here == IF st.frames = <<>> THEN st.root ELSE top.id
        back == IF Len(st.frames) <= 1 THEN st.root ELSE st.frames[Len(st.frames) - 1].id
        fid == st.root + st.n + 1
        r == IF p.kind = "call" THEN tracefunc(tr.t, "call", fid, here, p.c, FALSE)
             ELSE IF p.kind = "catch" \/ ~top.ltrace THEN NotCalled(tr.t)
             ELSE IF p.kind \in {"return", "unwind"}
             THEN tracefunc(tr.t, "return", top.id, back, top.fn, FALSE)
             ELSE tracefunc(tr.t, "exception", top.id, back, top.fn, FALSE)
    IN [ st |-> [st EXCEPT
                   !.frames = IF p.kind = "call"
                              THEN Append(@, [id |-> fid, fn |-> p.c,
                                              ltrace |-> r.res = "self"])
                              ELSE IF p.kind \in {"return", "unwind"} THEN Front(@)
                              ELSE @,
                   !.mode = IF p.kind \in {"call", "return", "catch"} THEN "run"
                            ELSE IF p.kind = "unwind" THEN "raised"
                            ELSE "exc",
                   !.n = @ + 1],
         tr |-> [t |-> r.t, file |-> tr.file \o r.out] ]

\* Both threads have constructed a PerThreadFileTracer over the same targets
\* and depths, each with a file of its own, and have entered trace_on.
InitThreads ==
    /\ Fresh
    /\ fmt = FmtOff
    /\ sup = SupOff
    /\ thr = [th \in Threads |-> NewThread(th)]
    /\ store = [k \in Threads |-> NewFileTracer]
    /\ alone = [th \in Threads |-> [st |-> NewThread(th), tr |-> NewFileTracer]]

\* The registry of the two tracers (Tracer._get_functions).
Registered ==
    /\ session = "new"
    /\ \E dct \in ThreadDepthConfigs :
         \E order \in Orders(PlainTargets \cup CallableTargets \cup DOMAIN dct) :
            LET r == _get_functions(order, dct)
            IN functions' = r.functions /\ depths' = r.depths
    /\ session' = "active"
    /\ given' = PlainTargets \cup CallableTargets
    /\ UNCHANGED <<tracer, hook, closed, frames, mode, nextId, raises, log,
                   calls, deepest, raisedOut, faults, escaped, exitKind, prior,
                   inner, fmt, thr, store, alone, sup>>

\* Thread th takes step p of its program.
ThreadAct(th, p) ==
    /\ session = "active"
    /\ CanStep(thr[th], p)
    /\ LET k == AttrsOf(th)
           r == ThreadStep(thr[th], store[k], p)
           a == ThreadStep(alone[th].st, alone[th].tr, p)
       IN /\ thr' = [thr EXCEPT ![th] = r.st]
          /\ store' = [store EXCEPT ![k] = r.tr]
          /\ alone' = [alone EXCEPT ![th] = a]
    /\ UNCHANGED <<session, functions, depths, tracer, hook, closed, frames,
                   mode, nextId, raises, log, calls, deepest, raisedOut, given,
                   faults, escaped, exitKind, prior, inner, fmt, sup>>

NextThreads ==
    \/ Registered
    \/ \E th \in Threads : \E p \in ThreadSteps : ThreadAct(th, p)

SpecThreads == InitThreads /\ [][NextThreads]_vars


\* ------------------------------------------------------ the target supplier

\* The names a namespace may bind to callables, in the order inspect.getmembers
\* lists them (sorted by name): two classes, two special methods, a hidden
\* function and a public function.
MemberNames == <<"K", "_K", "__init__", "__repr__", "_h", "f">>

\* The names among them that are bound to classes.
ClassNames == {"K", "_K"}

\* The callables defined in the body of each of these classes, sorted by name.
ClassBody == <<"__repr__", "_p", "m">>

\* n.startswith(p)
startswith(n, p) == Len(n) >= Len(p) /\ SubSeq(n, 1, Len(p)) = p

\* A test of r that lets every name through when include_hidden is set.
Eligible_AllIfHidden(n, include_hidden) ==
    include_hidden \/ ~startswith(n, "_")

\* The name test of r: not n.startswith("__") and (include_hidden or not
\* (include_hidden or n.startswith("_"))).
Eligible(n, include_hidden) ==
    /\ ~startswith(n, "__")
    /\ (include_hidden \/ ~(include_hidden \/ startswith(n, "_")))

\* _defined_this_module(parent, child); child.here: child.__module__ is the
\* module's __name__.
_defined_this_module(parent, child) ==
    IF parent.kind = "module" THEN child.here ELSE TRUE

\* The names of the sorted sequence names that are in the set has.
RECURSIVE Bound(_, _)
Bound(names, has) ==
    IF names = <<>> THEN <<>>
    ELSE (IF Head(names) \in has THEN <<Head(names)>> ELSE <<>>)
           \o Bound(Tail(names), has)

\* An object with the given callables: a module or a class named nm, binding
\* the names in has, of which those in foreign come from another module.
Namespace(kind, nm, has, foreign) ==
    LET names == Bound(MemberNames, has)
    IN [ kind |-> kind, name |-> nm,
         members |-> [i \in 1..Len(names) |->
                        [name |-> names[i], here |-> names[i] \notin foreign,
                         isclass |-> names[i] \in ClassNames]] ]

\* The class bound to name n, with the callables of its body.
ClassNamed(n) ==
    [ kind |-> "class", name |-> n,
      members |-> [i \in 1..Len(ClassBody) |->
                     [name |-> ClassBody[i], here |-> TRUE, isclass |-> FALSE]] ]

\* inspect.getmembers(o, callable): (name, value) pairs sorted by name.
getmembers(o) == o.members

\* all(o, include_hidden): reduce(r, inspect.getmembers(o, callable), []),
\* where r(x, y) appends the member y to the list x, or the functions of
\* all(v) when the member is a class v, or returns a copy of x.
RECURSIVE all(_, _), reduce_r(_, _, _, _)
r(o, include_hidden, x, y) ==
    IF Eligible(y.name, include_hidden) /\ _defined_this_module(o, y)
    THEN IF y.isclass
         THEN x \o all(ClassNamed(y.name), FALSE)
         ELSE Append(x, [owner |-> o.name, name |-> y.name])
    ELSE x

reduce_r(o, include_hidden, ys, x) ==
    IF ys = <<>> THEN x
    ELSE reduce_r(o, include_hidden, Tail(ys), r(o, include_hidden, x, Head(ys)))

all(o, include_hidden) == reduce_r(o, include_hidden, getmembers(o), <<>>)

\* all(o, include_hidden) is about to be called on a module or a class.
InitSupplier ==
    /\ Fresh
    /\ fmt = FmtOff
    /\ thr = ThreadsOff
    /\ store = ThreadsOff
    /\ alone = ThreadsOff
    /\ sup \in [ pc : {"start"},
                 o : { Namespace(kind, "o", has, foreign) :
                         kind \in {"module", "class"},
                         has \in SUBSET {MemberNames[i] : i \in 1..Len(MemberNames)},
                         foreign \in SUBSET {"f", "K"} },
                 include_hidden : BOOLEAN,
                 out : {<<>>} ]

\* The call all(o, include_hidden) returns.
SupCall ==
    /\ sup.pc = "start"
    /\ sup' = [sup EXCEPT !.pc = "done", !.out = all(sup.o, sup.include_hidden)]
    /\ UNCHANGED <<session, functions, depths, tracer, hook, closed, frames,
                   mode, nextId, raises, log, calls, deepest, raisedOut, given,
                   faults, escaped, exitKind, prior, inner, fmt, thr, store,
                   alone>>

NextSupplier == SupCall

SpecSupplier == InitSupplier /\ [][NextSupplier]_vars


\* ----------------------------------------------------------------- claims

\* The lines of the log of the given kind written at a boundary of frame id.
Lines(kind, id) == { i \in 1..Len(log) : log[i].kind = kind /\ log[i].inv = id }

\* All calls of the program have completed and no fault has occurred.
Quiet == session # "new" /\ frames = <<>> /\ faults = 0

\* The log from line i on, read with the levels of the enter lines that are
\* still open: an enter line is deeper than every open one, an exit or
\* exception line closes the innermost open one at its own level, and nothing
\* stays open.
RECURSIVE Nested(_, _)
Nested(i, open) ==
    IF i > Len(log) THEN open = <<>>
    ELSE IF log[i].kind = "enter"
    THEN /\ (open = <<>> \/ log[i].level > Last(open))
         /\ Nested(i + 1, Append(open, log[i].level))
    ELSE /\ open # <<>>
         /\ Last(open) = log[i].level
         /\ Nested(i + 1, Front(open))

\* C1: once every call of the program has completed, each enter line at level
\* L of the log is followed by exactly one exit or exception line at level L,
\* before any other line at a level <= L.
C1_WellNested == Quiet => Nested(1, <<>>)

\* C2: a call for which an enter line was written and which ended by raising
\* has exactly one exception line and no exit line.
C2_ExceptionOnce ==
    faults = 0 =>
        \A id \in raisedOut :
            Lines("enter", id) # {} =>
                /\ Cardinality(Lines("exception", id)) = 1
                /\ Lines("exit", id) = {}

\* Frame i of the program runs a target whose additional depth is d, and no
\* frame around it runs a target with an additional depth.
Limits(i, d) ==
    /\ frames[i].fn \in DOMAIN depths
    /\ depths[frames[i].fn] = d
    /\ \A j \in 1..(i - 1) : frames[j].fn \notin DOMAIN depths

\* C3: under a target with additional depth 1 (and no depth-limited caller),
\* a traced function it calls directly has its enter line written, and the
\* traced calls further down have none.
C3_DepthOne ==
    (raises = 0 /\ faults = 0) =>
        \A i \in 1..Len(frames) :
            Limits(i, 1) =>
                /\ (i + 1 <= Len(frames) /\ frames[i + 1].fn \in PlainTargets \ DOMAIN depths)
                      => Lines("enter", frames[i + 1].id) # {}
                /\ \A k \in (i + 2)..Len(frames) : Lines("enter", frames[k].id) = {}

\* C4: with depths = {g: 0}, the run "g is called, calls h, h returns, g
\* returns" leaves exactly g's enter line and g's exit line in the log.
C4_ScenarioB ==
    ( /\ depths = [c \in {"g"} |-> 0]
      /\ calls = <<"g", "h">>
      /\ deepest = 2
      /\ frames = <<>>
      /\ raises = 0
      /\ faults = 0 )
    => log = << Line("enter", 0, 1, "g"), Line("exit", 0, 1, "g") >>

\* The log of n nested calls of h of which the k innermost have returned.
RecLog(n, k) ==
    [ i \in 1..(n + k) |->
        IF i <= n THEN Line("enter", i - 1, i, "h")
        ELSE Line("exit", 2 * n - i, 2 * n - i + 1, "h") ]

\* The program so far is h calling itself, Len(calls) deep, with no exception,
\* and h has no additional depth.
Recursing ==
    /\ calls # <<>>
    /\ \A i \in 1..Len(calls) : calls[i] = "h"
    /\ deepest = Len(calls)
    /\ raises = 0
    /\ faults = 0
    /\ "h" \notin DOMAIN depths

\* C5: N nested calls of h write enter lines at levels 0..N-1, and their
\* returns write exit lines at levels N-1..0, each for the call that returns.
C5_Recursion == Recursing => log = RecLog(Len(calls), Len(calls) - Len(frames))

\* C5's case: the deepest recursion has returned to the with-block.
C5_Witness ==
    Recursing /\ Len(calls) = MaxCalls /\ frames = <<>> /\ Len(log) = 2 * MaxCalls

\* C6: once the outermost call has completed, every frame that was pushed on
\* tracedframes has been popped.
C6_StackEmptied == Quiet => tracer.tracedframes = <<>>

\* C7: once the with-block has been left, normally or by an exception, no
\* trace function is installed, the tracer is closed, and a call of any
\* callee reaches no tracer and writes no line.
C7_Teardown ==
    session = "ended" =>
        /\ ~hook
        /\ closed
        /\ \A c \in Callees :
              Deliver("call", nextId, Caller(frames), c, FALSE, FALSE) = NotCalled(tracer)

\* C7's case: a with-block that wrote lines was left by an exception.
C7_Witness ==
    session = "ended" /\ exitKind = "exception" /\ log # <<>> /\ faults = 0

\* C8: a fault inside tracefunc does not leave it, and the trace function
\* stays installed while the with-block runs.
C8_FaultDropped ==
    faults > 0 => (~escaped /\ (session = "active" => hook))

\* C9: a candidate that is no function, no method and not callable does not
\* make the constructor raise; the other candidates are registered.
C9_ShapelessSkipped ==
    (given \cap Shapeless # {}) =>
        /\ session # "failed"
        /\ functions = { _get_function_mapping(o)[1] : o \in given \ Shapeless }

\* The frames of the program that run a registered target.
ActiveTargets == { i \in 1..Len(frames) : frames[i].fn \in given }

\* C10: while the program runs (no exception is on its way), tracedframes
\* holds one entry for each active call of a registered target, written to the
\* trace or not.
C10_DepthIsActive ==
    (session = "active" /\ mode = "run" /\ faults = 0) =>
        Len(tracer.tracedframes) = Cardinality(ActiveTargets)

\* C11: when a second session that was started inside the with-block of an
\* active session has ended (the start was not rejected), the outer session's
\* trace function is installed again and a call of a target reaches the outer
\* tracer, until the outer session ends itself.
C11_NestRestores ==
    (session = "active" /\ inner = "ended" /\ faults = 0) =>
        /\ hook
        /\ \A c \in PlainTargets :
              Deliver("call", nextId, Caller(frames), c, FALSE, FALSE) # NotCalled(tracer)

\* C12: the traced call f(2, 3) of def f(a, b): return a + b writes exactly
\* the enter line "- module.f(2, 3)" and then the exit line "-> 5".
C12_ScenarioA ==
    (fmt.pc = "done" /\ fmt.a = 2 /\ fmt.b = 3) =>
        fmt.out = << "- module.f(2, 3)", "-> 5" >>

C14_NoRepr ==
    sup.pc = "done" =>
        \A i \in 1..Len(sup.out) :
            /\ sup.out[i].name # "__repr__"
            /\ ~sup.include_hidden => ~startswith(sup.out[i].name, "_")

\* C14's case: include_hidden is set, the object and a class in it define
\* __repr__, and the hidden function is returned.
C14_Witness ==
    /\ sup.pc = "done"
    /\ sup.include_hidden
    /\ \E i \in 1..Len(sup.o.members) : sup.o.members[i].name = "__repr__"
    /\ \E i \in 1..Len(sup.o.members) : sup.o.members[i].name = "K" /\ sup.o.members[i].here
    /\ \E i \in 1..Len(sup.out) : sup.out[i].name = "_h"
    /\ \E i \in 1..Len(sup.out) : sup.out[i].owner = "K"

\* C15: while the duplicate return of a call whose exception boundary popped
\* its frame is awaited, the return boundary of any other call is handled
\* normally: when it matches the top of tracedframes, the entry is popped and,
\* if the entry is a written one, the exit line goes to the trace.
C15_OnlyOwnReturnSuppressed ==
    [][ ( /\ frames # <<>>
          /\ frames' = Front(frames)
          /\ hook
          /\ Last(frames).ltrace
          /\ faults' = faults
          /\ tracer.exception_frame # {}
          /\ Last(frames).id \notin tracer.exception_frame
          /\ TopMatches(tracer, BackOfTop(frames)) )
        => /\ tracer'.tracedframes = Front(tracer.tracedframes)
           /\ Last(tracer.tracedframes).is_traced =>
                 /\ Len(log') = Len(log) + 1
                 /\ Last(log').kind = "exit"
                 /\ Last(log').inv = Last(frames).id ]_vars

\* C16: the call boundary of a registered target is recognised whatever
\* boundaries came before it: an entry for the call is appended to
\* tracedframes, and its enter line is written when the level is below the
\* entry's limit.
C16_RegisteredAlwaysMatched ==
    [][ ( /\ Len(calls') = Len(calls) + 1
          /\ Last(calls') \in given
          /\ faults' = faults )
        => /\ Len(tracer'.tracedframes) = Len(tracer.tracedframes) + 1
           /\ Last(tracer'.tracedframes).back = Caller(frames)
           /\ level(tracer) < Last(tracer'.tracedframes).maxdepth =>
                 /\ Len(log') = Len(log) + 1
                 /\ Last(log') = Line("enter", level(tracer), nextId, Last(calls')) ]_vars

\* The smaller of two numbers.
Min2(a, b) == IF a < b THEN a ELSE b

\* The least limit among the entries of a stack of traced frames; sys.maxint
\* (no limit) when it is empty.
CeilingOf(tf) ==
    IF tf = <<>> THEN maxint
    ELSE CHOOSE m \in {tf[i].maxdepth : i \in 1..Len(tf)} :
           \A i \in 1..Len(tf) : m <= tf[i].maxdepth

C18_CachedCeiling == tracer.min_depth = CeilingOf(tracer.tracedframes)

\* C18's case: under depths = {g: 2, h: 0}, g called h and h has returned:
\* the entry with the least limit (1) was popped and the cache is back at 2.
C18_Witness ==
    /\ calls = <<"g", "h">>
    /\ Len(frames) = 1
    /\ "h" \in DOMAIN depths
    /\ Len(tracer.tracedframes) = 1
    /\ tracer.min_depth = 2
    /\ faults = 0

\* C19: when the entry appended at a call boundary is popped at the return or
\* exception boundary of that same call, tracedframes, the level and min_depth
\* are what they were just before the call boundary, whether the entry is a
\* written one or not.
C19_RoundTrip ==
    [][ ( /\ Len(tracer'.tracedframes) < Len(tracer.tracedframes)
          /\ frames # <<>>
          /\ Last(prior).id = Last(frames).id )
        => /\ tracer'.tracedframes = Last(prior).tracedframes
           /\ level(tracer') = Len(Last(prior).tracedframes)
           /\ tracer'.min_depth = Last(prior).min_depth ]_vars

\* C19's case: under depths = {g: 2, h: 0}, g called h, whose entry (limit 1,
\* not written) was appended and has been popped at h's return, and g's entry
\* (written) has been popped at g's exception boundary.
C19_Witness ==
    /\ calls = <<"g", "h">>
    /\ "h" \in DOMAIN depths
    /\ deepest = 2
    /\ Len(frames) = 1
    /\ mode = "exc"
    /\ tracer.tracedframes = <<>>
    /\ prior = <<>>
    /\ Len(log) = 2
    /\ faults = 0

\* The step is the call boundary of a callee that is not registered.
UntracedCall == Len(calls') = Len(calls) + 1 /\ Last(calls') \notin given

\* The step is a return or an exception boundary of the innermost frame, and
\* tracedframes is empty or its top entry was not appended for a call from
\* that frame's caller.
UnlinkedBoundary ==
    /\ frames # <<>>
    /\ \/ frames' = Front(frames)
       \/ frames' = frames /\ mode # "exc" /\ mode' = "exc"
    /\ \/ tracer.tracedframes = <<>>
       \/ Last(tracer.tracedframes).back # BackOfTop(frames)

\* C20: a call boundary of an unregistered callee, and a return or exception
\* boundary that does not match the top of tracedframes, leave tracedframes,
\* the level and min_depth as they are and write no line.
C20_UntracedUntouched ==
    [][ (UntracedCall \/ UnlinkedBoundary)
        => /\ tracer'.tracedframes = tracer.tracedframes
           /\ level(tracer') = level(tracer)
           /\ tracer'.min_depth = tracer.min_depth
           /\ log' = log ]_vars

\* C20's case: the traced g called the unregistered m2, and m2 has returned:
\* g's entry is still the only one and only g's enter line is written.
C20_Witness ==
    /\ calls = <<"g", "m2">>
    /\ Len(frames) = 1
    /\ Len(tracer.tracedframes) = 1
    /\ Len(log) = 1
    /\ raises = 0
    /\ faults = 0

====
